---- MODULE Spec2Model ----
(***************************************************************************)
(* Model of streamlit_app.py: the export form of the LinearB bulk          *)
(* interface.  One submission of the form ("if extract:") builds the       *)
(* payload, calls make_linearb_request once and renders the result.        *)
(*                                                                         *)
(* Python values are tagged records: [type |-> "str", val |-> <<chars>>],  *)
(* [type |-> "list", val |-> <<items>>], [type |-> "int", val |-> n],      *)
(* [type |-> "dict", val |-> function on the keys], [type |-> "NoneType"], *)
(* [type |-> "float"] (the NaN pandas stores for a missing cell).          *)
(* A text is the sequence of its characters.                               *)
(***************************************************************************)
EXTENDS Integers, Sequences, FiniteSets, TLC

VARIABLES
    pc,                 \* position in the script: "form", "built", "responded", "done"
    api_token,          \* st.secrets["api_token"], a text
    edited_metrics_df,  \* the metric table returned by st.data_editor
    contributor_ids, team_ids, repository_ids, service_ids, labels,  \* text inputs
    group_by, roll_up,  \* selectbox values (texts)
    limit,              \* number_input value (integer)
    after, before,      \* date_input values
    net,                \* what the network does with the one request
    requested_metrics,  \* list built by the loop of lines 167-179
    payload,            \* dict built by lines 203-214
    response,           \* value returned by make_linearb_request
    variant,            \* which return statement of make_linearb_request ran
    requests,           \* the httpx.request calls of this submission, in order
    escaped,            \* exception that left make_linearb_request, or "none"
    error_shown,        \* st.error was called
    report_url_read,    \* response['report_url'] was evaluated
    link_rendered,      \* st.link_button was called
    crashed             \* exception that ended the rendering, or "none"

vars == <<pc, api_token, edited_metrics_df, contributor_ids, team_ids,
          repository_ids, service_ids, labels, group_by, roll_up, limit,
          after, before, net, requested_metrics, payload, response, variant,
          requests, escaped, error_shown, report_url_read, link_rendered, crashed>>

inputs == <<api_token, edited_metrics_df, contributor_ids, team_ids,
            repository_ids, service_ids, labels, group_by, roll_up, limit,
            after, before, net>>

----------------------------------------------------------------------------
(* Bounds of the model *)

MaxFilterLen == 4       \* longest text typed in the filter input under test
MaxRows == 2            \* most rows of the metric table
MaxKinds == 2           \* most aggregation kinds in one row
MaxLimit == 5           \* largest limit typed (the smallest is -1)

----------------------------------------------------------------------------
(* Python values *)

PyNone == [type |-> "NoneType"]
PyNaN == [type |-> "float"]
PyStr(s) == [type |-> "str", val |-> s]
PyList(xs) == [type |-> "list", val |-> xs]
PyInt(n) == [type |-> "int", val |-> n]
PyDict(f) == [type |-> "dict", val |-> f]

\* bool(v) as Python's `if v` computes it
Truthy(v) ==
    CASE v.type = "NoneType" -> FALSE
      [] v.type = "str" -> Len(v.val) > 0
      [] v.type = "list" -> Len(v.val) > 0
      [] v.type = "int" -> v.val # 0
      [] v.type = "dict" -> DOMAIN v.val # {}
      [] OTHER -> TRUE

\* dict.update: the keys of e are written over those of d
update(d, e) ==
    [k \in (DOMAIN d) \cup (DOMAIN e) |-> IF k \in DOMAIN e THEN e[k] ELSE d[k]]

\* {n: f for n, f in zip(names, values) if f}
dict_if_truthy(names, values) ==
    LET kept == {i \in 1..Len(names) : i <= Len(values) /\ Truthy(values[i])}
        last(k) == CHOOSE i \in kept : names[i] = k /\ \A j \in kept : names[j] = k => j <= i
    IN [k \in {names[i] : i \in kept} |-> values[last(k)]]

\* {n: a for n, a in zip(names, values)}: the comprehension without its `if`
dict_of_all(names, values) ==
    LET kept == {i \in 1..Len(names) : i <= Len(values)}
        last(k) == CHOOSE i \in kept : names[i] = k /\ \A j \in kept : names[j] = k => j <= i
    IN [k \in {names[i] : i \in kept} |-> values[last(k)]]

----------------------------------------------------------------------------
(* Texts *)

Whitespace == {" ", "\t"}

\* str.split(sep) with a one-character separator: every occurrence of sep
\* ends a piece, so adjacent, leading and trailing separators give empty pieces
RECURSIVE split(_, _)
split(s, sep) ==
    IF \A i \in 1..Len(s) : s[i] # sep
    THEN <<s>>
    ELSE LET i == CHOOSE k \in 1..Len(s) : s[k] = sep /\ \A j \in 1..(k - 1) : s[j] # sep
         IN <<SubSeq(s, 1, i - 1)>> \o split(SubSeq(s, i + 1, Len(s)), sep)

\* str.strip(): the text without its leading and trailing whitespace
strip(s) ==
    LET solid == {i \in 1..Len(s) : s[i] \notin Whitespace}
    IN IF solid = {} THEN <<>>
       ELSE LET lo == CHOOSE i \in solid : \A j \in solid : i <= j
                hi == CHOOSE i \in solid : \A j \in solid : j <= i
            IN SubSeq(s, lo, hi)

\* reformat_filters, lines 103-108
reformat_filters(filters) ==
    IF Len(filters) = 0
    THEN PyNone
    ELSE LET pieces == split(filters, " ")
         IN PyList([i \in 1..Len(pieces) |-> strip(pieces[i])])

----------------------------------------------------------------------------
(* Request builder, lines 166-214 *)

\* the same loop body without its `if row["selected"]`
row_entries_unselected_too(row) ==
    IF row.value.type # "float"
    THEN [j \in 1..Len(row.value.val) |-> [name |-> row.name, agg |-> row.value.val[j]]]
    ELSE <<[name |-> row.name]>>

\* the entries one row appends, lines 169-179
row_entries(row) ==
    IF row.selected
    THEN IF row.value.type # "float"
         THEN [j \in 1..Len(row.value.val) |-> [name |-> row.name, agg |-> row.value.val[j]]]
         ELSE <<[name |-> row.name]>>
    ELSE <<>>

\* the loop over edited_metrics_df.iterrows(), lines 167-179
RECURSIVE metrics_loop(_)
metrics_loop(df) ==
    IF df = <<>> THEN <<>>
    ELSE metrics_loop(SubSeq(df, 1, Len(df) - 1)) \o row_entries(df[Len(df)])

FilterNames == <<"contributor_ids", "team_ids", "repository_ids", "service_ids", "labels">>

\* the filters dict, lines 182-193
filters_dict(c, t, r, s, l) ==
    dict_if_truthy(FilterNames,
        <<reformat_filters(c), reformat_filters(t), reformat_filters(r),
          reformat_filters(s), reformat_filters(l)>>)

\* the aggregations comprehension without its `if a`
aggregations_dict_unfiltered(g, r, lim, s) ==
    dict_of_all(<<"group_by", "roll_up", "limit", "service_ids">>,
        <<PyStr(g), PyStr(r), PyInt(lim), PyStr(s)>>)

\* the aggregations dict, lines 196-201
aggregations_dict(g, r, lim, s) ==
    dict_if_truthy(<<"group_by", "roll_up", "limit", "service_ids">>,
        <<PyStr(g), PyStr(r), PyInt(lim), PyStr(s)>>)

\* the decimal digits of n, zero-padded to `width`, as characters
Digit(d) == <<"0", "1", "2", "3", "4", "5", "6", "7", "8", "9">>[d + 1]
RECURSIVE Padded(_, _)
Padded(n, width) ==
    IF width = 0 THEN <<>> ELSE Padded(n \div 10, width - 1) \o <<Digit(n % 10)>>

\* date.strftime("%Y-%m-%d")
strftime(d) == Padded(d.year, 4) \o <<"-">> \o Padded(d.month, 2) \o <<"-">> \o Padded(d.day, 2)

\* the payload literal, lines 203-211
base_payload(rm, a, b) ==
    [k \in {"requested_metrics", "time_ranges"} |->
        IF k = "requested_metrics" THEN PyList(rm)
        ELSE PyList(<<[after |-> strftime(a), before |-> strftime(b)]>>)]

\* lines 203-214: the literal, then payload.update(filters), payload.update(aggregations)
build_payload(rm, c, t, r, s, l, g, ru, lim, a, b) ==
    update(update(base_payload(rm, a, b), filters_dict(c, t, r, s, l)),
           aggregations_dict(g, ru, lim, s))

----------------------------------------------------------------------------
(* API gateway: make_linearb_request, lines 27-98 *)

\* A message or any other text built from literals is the sequence of its
\* fragments; an f-string concatenates them
LINEARB_API_BASE == <<"https://public-api.linearb.io">>
ENDPOINT == <<"/api/v2/measurements/export">>

\* httpx.RequestError and its subclasses: no response was obtained
RequestErrors == {"ConnectTimeout", "ConnectError", "ReadTimeout"}
\* exceptions httpx.request raises that are not RequestError
OtherErrors == {"TypeError", "InvalidURL"}

\* a returned value: `variant` names the return statement that produced it
Returned(v, val, reqs) == [variant |-> v, value |-> val, requests |-> reqs, raised |-> "none"]
\* an exception that leaves the function
Raised(cls, reqs) == [variant |-> "none", value |-> PyNone, requests |-> reqs, raised |-> cls]

\* line 50 with the check lost
credential_never_missing(token) == FALSE

\* line 50: `if not api_token`
credential_missing(token) == ~Truthy(PyStr(token))

\* lines 64-65: a dict body loses its None values, anything else passes as is
sanitize(json_data) ==
    IF json_data.type = "dict"
    THEN PyDict([k \in {x \in DOMAIN json_data.val : json_data.val[x].type # "NoneType"}
                    |-> json_data.val[k]])
    ELSE json_data

\* the same call retried once when no response was obtained
send_with_retry(req, outcome) ==
    [requests |-> IF outcome.kind = "raise" THEN <<req, req>> ELSE <<req>>,
     outcome |-> outcome]

\* lines 69-71: the one httpx.request call; `outcome` is what the network did
send(req, outcome) == [requests |-> <<req>>, outcome |-> outcome]

\* response.json(): json.loads(response.content).  It returns the parsed
\* value, raises json.JSONDecodeError on text that is not JSON (the empty
\* body included), and raises UnicodeDecodeError, a ValueError that is not a
\* JSONDecodeError, on bytes that are not text in a Unicode encoding
response_json(resp) ==
    IF resp.content_empty THEN [raised |-> "JSONDecodeError", val |-> PyNone]
    ELSE IF resp.parse = "ok" THEN [raised |-> "none", val |-> resp.data]
    ELSE [raised |-> resp.parse, val |-> PyNone]

\* lines 73-94: the result for a response, or the exception the block raises
classify(resp, reqs) ==
    IF 200 <= resp.status_code /\ resp.status_code < 300
    THEN IF resp.status_code = 204
         THEN Returned("NoContent",
                  PyDict([k \in {"message", "status_code"} |->
                      IF k = "message" THEN PyStr(<<"Operation successful (No Content).">>)
                      ELSE PyInt(204)]), reqs)
         ELSE IF ~resp.content_empty
         THEN LET j == response_json(resp)
              IN IF j.raised = "none" THEN Returned("Success", j.val, reqs)
                 ELSE IF j.raised = "JSONDecodeError"
                 THEN Returned("DecodeError",
                          PyDict([k \in {"error", "status_code", "response_text"} |->
                              CASE k = "error" -> PyStr(<<"Failed to decode JSON response.">>)
                                [] k = "status_code" -> PyInt(resp.status_code)
                                [] OTHER -> PyStr(resp.text)]), reqs)
                 ELSE Raised(j.raised, reqs)
         ELSE Returned("EmptyBody",
                  PyDict([k \in {"message", "status_code"} |->
                      IF k = "message"
                      THEN PyStr(<<"Operation successful (Status: ">>
                                 \o Padded(resp.status_code, 3) \o <<").">>)
                      ELSE PyInt(resp.status_code)]), reqs)
    ELSE LET j == response_json(resp)
         IN IF j.raised \notin {"none", "JSONDecodeError"} THEN Raised(j.raised, reqs)
            ELSE Returned("HttpError",
                     PyDict([k \in {"error", "status_code", "details"} |->
                         CASE k = "error" -> PyStr(<<"API request failed.">>)
                           [] k = "status_code" -> PyInt(resp.status_code)
                           [] OTHER -> IF j.raised = "none" THEN j.val ELSE PyStr(resp.text)]),
                     reqs)

\* lines 95-96 alone: the `except Exception` clause lost
on_exception_request_error_only(cls, reqs) ==
    IF cls \in RequestErrors
    THEN Returned("TransportError",
             PyDict([k \in {"error", "details"} |->
                 IF k = "error" THEN PyStr(<<"HTTP request error: ", cls>>)
                 ELSE PyStr(<<"str(e) of ", cls>>)]), reqs)
    ELSE Raised(cls, reqs)

\* lines 95-98: the two except clauses of the outer try
on_exception(cls, reqs) ==
    IF cls \in RequestErrors
    THEN Returned("TransportError",
             PyDict([k \in {"error", "details"} |->
                 IF k = "error" THEN PyStr(<<"HTTP request error: ", cls>>)
                 ELSE PyStr(<<"str(e) of ", cls>>)]), reqs)
    ELSE Returned("UnexpectedError",
             PyDict([k \in {"error", "details"} |->
                 IF k = "error" THEN PyStr(<<"An unexpected error occurred: ", cls>>)
                 ELSE PyStr(<<"str(e) of ", cls>>)]), reqs)

\* make_linearb_request, lines 27-98; params is None at the one call site
make_linearb_request(token, method, endpoint, json_data, outcome) ==
    IF credential_missing(token)
    THEN Returned("HttpError",
             PyDict([k \in {"error", "status_code"} |->
                 IF k = "error" THEN PyStr(<<"LinearB API Key is required.">>)
                 ELSE PyInt(401)]), <<>>)
    ELSE LET headers == [k \in {"Content-Type", "Accept", "x-api-key"} |->
                            IF k = "x-api-key" THEN token ELSE <<"application/json">>]
             req == [method |-> method, url |-> LINEARB_API_BASE \o endpoint,
                     headers |-> headers, json |-> sanitize(json_data)]
             sent == send(req, outcome)
         IN IF sent.outcome.kind = "raise"
            THEN on_exception(sent.outcome.exc, sent.requests)
            ELSE LET c == classify(sent.outcome, sent.requests)
                 IN IF c.raised = "none" THEN c ELSE on_exception(c.raised, c.requests)

----------------------------------------------------------------------------
(* Result rendering, lines 228-231 *)

\* `"error" in response`: a key of a dict, an item of a list
has_error(resp) ==
    CASE resp.type = "dict" -> "error" \in DOMAIN resp.val
      [] resp.type = "list" -> \E i \in 1..Len(resp.val) : resp.val[i] = PyStr(<<"error">>)
      [] OTHER -> FALSE

\* response[key]: the exception the subscript raises, or "none"
subscript_error(resp, key) ==
    CASE resp.type = "dict" -> IF key \in DOMAIN resp.val THEN "none" ELSE "KeyError"
      [] OTHER -> "TypeError"

----------------------------------------------------------------------------
(* Inputs *)

\* the texts of at most n characters over the characters of A
RECURSIVE TextsUpTo(_, _)
TextsUpTo(A, n) ==
    IF n = 0 THEN {<<>>}
    ELSE LET shorter == TextsUpTo(A, n - 1)
         IN shorter \cup {Append(t, ch) : t \in shorter, ch \in A}

FilterChars == {" ", "\t", "a"}
TypedFilters == TextsUpTo(FilterChars, MaxFilterLen)
ShortFilters == {<<>>, <<"a">>}

GroupByOptions == {<<"contributor">>, <<"label">>, <<"organization">>, <<"repository">>, <<"team">>}
RollUpOptions == {<<"1d">>, <<"1w">>, <<"1m">>, <<"custom">>}
Limits == (-1)..MaxLimit

Dates == {[year |-> 2024, month |-> 1, day |-> 1],
          [year |-> 2024, month |-> 1, day |-> 31],
          [year |-> 987, month |-> 12, day |-> 5]}

MetricNames == <<"cycle_time", "deploy_frequency", "pr_size", "review_time">>
Kinds == {"p50", "p75", "avg"}

\* the lists of at most n distinct aggregation kinds
KindLists(n) ==
    {l \in TextsUpTo(Kinds, n) : \A i, j \in 1..Len(l) : i # j => l[i] # l[j]}

\* a cell of the `value` column: NaN where metrics.json gives no value, else a list
CellValues == {PyNaN} \cup {PyList(l) : l \in KindLists(MaxKinds)}

\* the table whose row i holds metric i with the given flag and cell
TableOf(n, sel, val) ==
    [i \in 1..n |-> [name |-> MetricNames[i], selected |-> sel[i], value |-> val[i]]]

\* parsed JSON bodies
JsonDicts ==
    {PyDict([k \in ks |-> PyStr(<<"text of ", k>>)]) : ks \in SUBSET {"report_url", "error"}}
JsonValues == JsonDicts \cup {PyList(<<>>)}

StatusCodes == {199, 200, 201, 204, 299, 300, 401, 404, 500}

\* bodies that do not parse: the exception json.loads raises and response.text
\* (which decodes with replacement characters, so it never raises)
BadBodies == {[parse |-> "JSONDecodeError", text |-> <<"not valid json{">>],
              [parse |-> "UnicodeDecodeError", text |-> <<"U+FFFD">>]}

Responses ==
    {[kind |-> "response", status_code |-> st, content_empty |-> TRUE, parse |-> "JSONDecodeError",
      data |-> PyNone, text |-> <<>>] : st \in StatusCodes}
    \cup
    {[kind |-> "response", status_code |-> st, content_empty |-> FALSE, parse |-> "ok",
      data |-> d, text |-> <<"json text">>] : st \in StatusCodes, d \in JsonValues}
    \cup
    {[kind |-> "response", status_code |-> st, content_empty |-> FALSE, parse |-> b.parse,
      data |-> PyNone, text |-> b.text] : st \in StatusCodes, b \in BadBodies}

Failures == {[kind |-> "raise", exc |-> e] : e \in RequestErrors \cup OtherErrors}

Outcomes == Responses \cup Failures

\* a 200 response carrying a report_url
DefaultOutcome ==
    [kind |-> "response", status_code |-> 200, content_empty |-> FALSE, parse |-> "ok",
     data |-> PyDict([k \in {"report_url"} |-> PyStr(<<"text of ", k>>)]),
     text |-> <<"json text">>]

Tokens == {<<>>, <<"k", "e", "y">>}

----------------------------------------------------------------------------
(* States *)

\* the values of the script's locals before the submission block runs
Fresh ==
    /\ pc = "form"
    /\ requested_metrics = <<>>
    /\ payload = <<>>
    /\ response = PyNone
    /\ variant = "none"
    /\ requests = <<>>
    /\ escaped = "none"
    /\ error_shown = FALSE
    /\ report_url_read = FALSE
    /\ link_rendered = FALSE
    /\ crashed = "none"

\* the widgets as the script creates them: empty texts, first options, limit 1
DefaultFilters ==
    /\ contributor_ids = <<>> /\ team_ids = <<>> /\ repository_ids = <<>>
    /\ service_ids = <<>> /\ labels = <<>>

DefaultAggregations ==
    /\ group_by = <<"contributor">> /\ roll_up = <<"1d">> /\ limit = 1
    /\ after = [year |-> 2024, month |-> 1, day |-> 1]
    /\ before = [year |-> 2024, month |-> 1, day |-> 31]

DefaultTable ==
    edited_metrics_df = <<[name |-> MetricNames[1], selected |-> TRUE,
                           value |-> PyList(<<"p75", "avg">>)]>>

DefaultGateway == api_token = <<"k", "e", "y">> /\ net = DefaultOutcome

\* the user typed into the filter inputs: one of them anything up to
\* MaxFilterLen characters, the others nothing or one id
InitFilters ==
    /\ \E deep \in 1..5, typed \in TypedFilters, short \in [1..5 -> ShortFilters] :
         LET fs == [short EXCEPT ![deep] = typed]
         IN /\ contributor_ids = fs[1] /\ team_ids = fs[2] /\ repository_ids = fs[3]
            /\ service_ids = fs[4] /\ labels = fs[5]
    /\ DefaultAggregations /\ DefaultTable /\ DefaultGateway

\* the user edited the metric table
InitMetrics ==
    /\ \E n \in 0..MaxRows :
         \E sel \in [1..n -> BOOLEAN], val \in [1..n -> CellValues] :
            edited_metrics_df = TableOf(n, sel, val)
    /\ DefaultFilters /\ DefaultAggregations /\ DefaultGateway

\* the user chose the aggregation options and the dates
InitAggregations ==
    /\ group_by \in GroupByOptions /\ roll_up \in RollUpOptions /\ limit \in Limits
    /\ after \in Dates /\ before \in Dates
    /\ service_ids \in ShortFilters
    /\ contributor_ids = <<>> /\ team_ids = <<>> /\ repository_ids = <<>> /\ labels = <<>>
    /\ DefaultTable /\ DefaultGateway

\* the credential and the network vary
InitGateway ==
    /\ api_token \in Tokens /\ net \in Outcomes
    /\ DefaultFilters /\ DefaultAggregations /\ DefaultTable

Init == Fresh /\ (InitFilters \/ InitMetrics \/ InitAggregations \/ InitGateway)

----------------------------------------------------------------------------
(* The submission block, lines 164-231 *)

\* lines 166-220: the metrics loop, the two dicts, the payload and its merges
Extract ==
    /\ pc = "form"
    /\ requested_metrics' = metrics_loop(edited_metrics_df)
    /\ payload' = build_payload(metrics_loop(edited_metrics_df), contributor_ids, team_ids,
                                repository_ids, service_ids, labels, group_by, roll_up,
                                limit, after, before)
    /\ pc' = "built"
    /\ UNCHANGED <<inputs, response, variant, requests, escaped, error_shown,
                   report_url_read, link_rendered, crashed>>

\* lines 222-226: the call of make_linearb_request
Request ==
    /\ pc = "built"
    /\ LET r == make_linearb_request(api_token, "POST", ENDPOINT, PyDict(payload), net)
       IN /\ response' = r.value
          /\ variant' = r.variant
          /\ requests' = r.requests
          /\ escaped' = r.raised
          /\ pc' = IF r.raised = "none" THEN "responded" ELSE "done"
    /\ UNCHANGED <<inputs, requested_metrics, payload, error_shown, report_url_read,
                   link_rendered, crashed>>

\* lines 228-231: st.error when the result has an "error", then the link
Render ==
    /\ pc = "responded"
    /\ LET shows == has_error(response)
           e1 == IF shows THEN subscript_error(response, "error") ELSE "none"
           e2 == subscript_error(response, "report_url")
       IN /\ error_shown' = (shows /\ e1 = "none")
          /\ report_url_read' = (e1 = "none")
          /\ link_rendered' = (e1 = "none" /\ e2 = "none")
          /\ crashed' = IF e1 # "none" THEN e1 ELSE e2
    /\ pc' = "done"
    /\ UNCHANGED <<inputs, requested_metrics, payload, response, variant, requests, escaped>>

Next == Extract \/ Request \/ Render

Spec == Init /\ [][Next]_vars

----------------------------------------------------------------------------
(* Properties *)

FilterKeys == {FilterNames[i] : i \in 1..Len(FilterNames)}

\* the text typed in the input a filter key is built from
InputOf(k) ==
    CASE k = "contributor_ids" -> contributor_ids
      [] k = "team_ids" -> team_ids
      [] k = "repository_ids" -> repository_ids
      [] k = "service_ids" -> service_ids
      [] k = "labels" -> labels

IsBlank(s) == \A i \in 1..Len(s) : s[i] \in Whitespace

\* the maximal runs of non-whitespace characters of s, in order
RECURSIVE WordsOf(_)
WordsOf(s) ==
    IF IsBlank(s) THEN <<>>
    ELSE LET lo == CHOOSE i \in 1..Len(s) :
                       s[i] \notin Whitespace /\ \A j \in 1..(i - 1) : s[j] \in Whitespace
             hi == CHOOSE i \in lo..Len(s) :
                       /\ \A j \in lo..i : s[j] \notin Whitespace
                       /\ (i = Len(s) \/ s[i + 1] \in Whitespace)
         IN <<SubSeq(s, lo, hi)>> \o WordsOf(SubSeq(s, hi + 1, Len(s)))

Built == pc \in {"built", "responded", "done"}
Responded == pc \in {"responded", "done"} /\ escaped = "none"

\* C1: a filter input that is empty or only whitespace leaves no key in the
\* payload
C1_BlankFilterOmitted ==
    Built => \A k \in FilterKeys : IsBlank(InputOf(k)) => k \notin DOMAIN payload

\* C2: every filter key present in the final payload holds the list of the
\* trimmed, non-empty tokens of its input, in input order
C2_FilterKeysHoldTokens ==
    Built => \A k \in FilterKeys \cap DOMAIN payload :
                 /\ payload[k].type = "list"
                 /\ \A i \in 1..Len(payload[k].val) :
                        payload[k].val[i] # <<>> /\ strip(payload[k].val[i]) = payload[k].val[i]
                 /\ payload[k].val = WordsOf(InputOf(k))

\* the number of entries a row contributes
Contribution(row) ==
    IF ~row.selected THEN 0
    ELSE IF row.value.type = "list" THEN Len(row.value.val) ELSE 1

\* the number of entries of the rows before row i
RECURSIVE Offset(_, _)
Offset(df, i) == IF i <= 1 THEN 0 ELSE Offset(df, i - 1) + Contribution(df[i - 1])

\* C3: requested_metrics holds, in table order, one {name} per selected
\* scalar row and one {name, agg} per kind, in kind order, per selected list
\* row; unselected rows and empty lists contribute nothing
C3_MetricExpansion ==
    Built =>
        LET df == edited_metrics_df
        IN /\ Len(requested_metrics) = Offset(df, Len(df) + 1)
           /\ payload["requested_metrics"] = PyList(requested_metrics)
           /\ \A i \in 1..Len(df) :
                 df[i].selected =>
                    IF df[i].value.type = "list"
                    THEN \A j \in 1..Len(df[i].value.val) :
                            requested_metrics[Offset(df, i) + j] =
                                [name |-> df[i].name, agg |-> df[i].value.val[j]]
                    ELSE requested_metrics[Offset(df, i) + 1] = [name |-> df[i].name]

\* a selected row of two kinds followed by an unselected list row was expanded
C3_Witness ==
    /\ Built
    /\ Len(edited_metrics_df) = 2
    /\ edited_metrics_df[1].selected /\ edited_metrics_df[1].value = PyList(<<"p75", "avg">>)
    /\ ~edited_metrics_df[2].selected /\ edited_metrics_df[2].value = PyList(<<"avg">>)
    /\ Len(requested_metrics) = 2

\* C4: group_by, roll_up and limit are keys of the payload exactly when their
\* input is truthy, with the input value; time_ranges always holds one
\* {after, before} entry
C4_FalsyOmission ==
    Built =>
        /\ ("group_by" \in DOMAIN payload) <=> (Len(group_by) > 0)
        /\ ("roll_up" \in DOMAIN payload) <=> (Len(roll_up) > 0)
        /\ ("limit" \in DOMAIN payload) <=> (limit # 0)
        /\ "group_by" \in DOMAIN payload => payload["group_by"] = PyStr(group_by)
        /\ "roll_up" \in DOMAIN payload => payload["roll_up"] = PyStr(roll_up)
        /\ "limit" \in DOMAIN payload => payload["limit"] = PyInt(limit)
        /\ "time_ranges" \in DOMAIN payload
        /\ payload["time_ranges"].type = "list"
        /\ Len(payload["time_ranges"].val) = 1
        /\ DOMAIN payload["time_ranges"].val[1] = {"after", "before"}

\* a payload was built from limit 0 and has no limit key
C4_Witness == Built /\ limit = 0 /\ "limit" \notin DOMAIN payload /\ "group_by" \in DOMAIN payload

\* C5: with an empty credential the call returns the 401 HttpError and issues
\* no HTTP request
C5_NoCredentialNoRequest ==
    (pc \in {"responded", "done"} /\ api_token = <<>>) =>
        /\ escaped = "none"
        /\ variant = "HttpError"
        /\ response.type = "dict"
        /\ "status_code" \in DOMAIN response.val
        /\ response.val["status_code"] = PyInt(401)
        /\ requests = <<>>

\* the gateway was called with an empty credential while the network would
\* have answered
C5_Witness == pc = "responded" /\ api_token = <<>> /\ net.kind = "response"

\* the result the classification rules give a response
ExpectedVariant(resp) ==
    IF 200 <= resp.status_code /\ resp.status_code <= 299
    THEN IF resp.status_code = 204 THEN "NoContent"
         ELSE IF ~resp.content_empty
              THEN IF resp.parse = "ok" THEN "Success" ELSE "DecodeError"
              ELSE "EmptyBody"
    ELSE "HttpError"

\* C6: a response is classified by status and body: 204 NoContent; other 2xx
\* with a body Success when it parses and DecodeError with status and raw text
\* when it does not; other 2xx without a body EmptyBody; any other status
\* HttpError with the parsed body, else the raw text, as details
C6_Classification ==
    (Responded /\ api_token # <<>> /\ net.kind = "response") =>
        /\ variant = ExpectedVariant(net)
        /\ variant = "Success" => response = net.data
        /\ variant = "DecodeError" =>
              /\ response.val["status_code"] = PyInt(net.status_code)
              /\ response.val["response_text"] = PyStr(net.text)
        /\ variant = "EmptyBody" => response.val["status_code"] = PyInt(net.status_code)
        /\ variant = "HttpError" =>
              /\ response.val["status_code"] = PyInt(net.status_code)
              /\ response.val["details"] =
                    (IF ~net.content_empty /\ net.parse = "ok" THEN net.data
                     ELSE PyStr(net.text))

Variants == {"Success", "NoContent", "EmptyBody", "DecodeError", "HttpError",
             "TransportError", "UnexpectedError"}

\* the request raised, or classifying the response raised something other
\* than the JSONDecodeError the classification handles
OtherFailure ==
    \/ net.kind = "raise" /\ net.exc \notin RequestErrors
    \/ /\ net.kind = "response"
       /\ net.parse \notin {"ok", "JSONDecodeError"}
       /\ net.status_code # 204
       /\ ~net.content_empty

\* C7: every call returns one of the ApiResult values and no exception leaves
\* the gateway; a transport failure returns TransportError with the failure
\* kind and message, any other failure UnexpectedError
C7_NoExceptionEscapes ==
    (pc \in {"responded", "done"}) =>
        /\ escaped = "none"
        /\ variant \in Variants
        /\ (api_token # <<>> /\ net.kind = "raise" /\ net.exc \in RequestErrors) =>
              /\ variant = "TransportError"
              /\ response.val["error"] = PyStr(<<"HTTP request error: ", net.exc>>)
              /\ "details" \in DOMAIN response.val
        /\ (api_token # <<>> /\ OtherFailure) => variant = "UnexpectedError"

\* a failure that is not a transport failure came back as a value
C7_Witness ==
    /\ pc = "responded" /\ api_token # <<>> /\ OtherFailure
    /\ net.kind = "raise" /\ variant = "UnexpectedError"

ErrorVariants == {"DecodeError", "HttpError", "TransportError", "UnexpectedError"}

\* C8: after a submission every non-success result was shown as an error
\* message, and report_url was read and the link rendered only for a Success
C8_OnlySuccessRendersLink ==
    pc = "done" =>
        /\ variant # "Success" => error_shown
        /\ report_url_read => variant = "Success"
        /\ link_rendered => variant = "Success"

\* C9: the renderer's error test classifies a result as an error exactly when
\* the gateway returned one of the error variants, so a Success body is never
\* taken for an error
C9_VariantsNeverMixed ==
    Responded =>
        /\ variant = "Success" => ~has_error(response)
        /\ variant \in ErrorVariants => has_error(response)

\* the body the gateway hands to httpx for the payload
SentBody == sanitize(PyDict(payload))

\* C10: a submission issues at most one HTTP request, whatever its outcome,
\* and only after the payload is built, whose body it carries
C10_SingleAttempt ==
    /\ Len(requests) <= 1
    /\ requests # <<>> =>
          /\ pc \in {"responded", "done"}
          /\ requests[1].json = SentBody
          /\ requests[1].method = "POST"

\* the one request failed without a response and was not repeated
C10_Witness == pc = "done" /\ Len(requests) = 1 /\ net.kind = "raise"

====
